---- MODULE Spec2Model ----
(***************************************************************************)
(* A model of AdventureGame.cpp ("Mystic Quest"): the Character classes,   *)
(* the Game session controller (menu, start, load, save, combat loop) and  *)
(* the background music thread started by main.                            *)
(*                                                                         *)
(* Text (the save file, the tokens typed on cin) is a sequence of          *)
(* one-character strings, so that writing a value with operator<< and      *)
(* reading it back with operator>> are two different computations.         *)
(***************************************************************************)
EXTENDS Integers, Sequences, FiniteSets, TLC

VARIABLES
    pc,        \* position of the main flow: "menu" (line 111), "loop" (187),
               \* "action" (193), "outcome" (213), "join" (240), "done" (241)
    audio,     \* position of musicThread: "start" (227), "sleeping" (228), "ended"
    choice,    \* displayMenu's local `choice` (line 106), kept across iterations
    cinFail,   \* failbit of std::cin: once set it is never cleared by the program
    player,    \* Game::player: <<>> is nullptr, <<p>> points to the Player p
    enemy,     \* play()'s local `enemy`: <<>> outside play(), <<e>> inside
    file,      \* game_state.txt: <<>> cannot be opened for reading, <<text>> its content
    writable,  \* whether game_state.txt can be opened for writing
    out,       \* the messages the last step of the main flow wrote to cout/cerr
    ev,        \* history: the last step of the main flow, the state it started
               \* from and the takeDamage calls it made
    bout,      \* history: how the current (or last) bout was entered, the Player's
               \* health at entry and the number of attack actions taken in it
    saved      \* history: <<p>> when game_state.txt was last written by saveGame
               \* for the Player p, <<>> while the program has not written it

vars == <<pc, audio, choice, cinFail, player, enemy, file, writable, out, ev, bout, saved>>

-----------------------------------------------------------------------------
(* Bounds of the model. *)

\* CollectTreasure is taken at most this many times per bout.
MaxTreasures == 2

\* Health values 0..MaxUnitHealth and damages 0..MaxUnitDamage are the inputs
\* of the stand-alone takeDamage specification.
MaxUnitHealth == 12

MaxUnitDamage == 14

-----------------------------------------------------------------------------
(* Program constants. *)

PlayerInitialHealth == 100

EnemyInitialHealth == 50

PlayerAttackDamage == 20

EnemyAttackDamage == 15

-----------------------------------------------------------------------------
(* Text: operator<< and operator>> on streams. *)

NL == "\n"

IsSpace(c) == c \in {" ", NL}

DigitChars == <<"0", "1", "2", "3", "4", "5", "6", "7", "8", "9">>

IsDigit(c) == \E i \in 1..10 : DigitChars[i] = c

DigitValue(c) == (CHOOSE i \in 1..10 : DigitChars[i] = c) - 1

RECURSIVE SkipSpace(_)
\* The sentry of a formatted input: leading whitespace is discarded.
SkipSpace(s) ==
    IF s # <<>> /\ IsSpace(Head(s)) THEN SkipSpace(Tail(s)) ELSE s

RECURSIVE TokenLen(_)
\* Length of the longest prefix of s without whitespace.
TokenLen(s) ==
    IF s = <<>> \/ IsSpace(Head(s)) THEN 0 ELSE 1 + TokenLen(Tail(s))

RECURSIVE DigitsLen(_)
\* Length of the longest prefix of s made of decimal digits.
DigitsLen(s) ==
    IF s = <<>> \/ ~IsDigit(Head(s)) THEN 0 ELSE 1 + DigitsLen(Tail(s))

RECURSIVE DigitsValue(_, _)
\* The value of the digit string s, accumulated from acc.
DigitsValue(s, acc) ==
    IF s = <<>> THEN acc ELSE DigitsValue(Tail(s), 10 * acc + DigitValue(Head(s)))

Drop(s, n) == SubSeq(s, n + 1, Len(s))

\* istream >> string on a stream whose remaining content is s and whose
\* state is good iff `good`.  `stored` tells whether the string was assigned:
\* a failed sentry (stream not good, or only whitespace left) leaves it alone.
ExtractString(s, good) ==
    LET t == SkipSpace(s)
        n == TokenLen(t)
    IN  IF ~good THEN [ok |-> FALSE, stored |-> FALSE, val |-> <<>>, rest |-> s]
        ELSE IF t = <<>> THEN [ok |-> FALSE, stored |-> FALSE, val |-> <<>>, rest |-> t]
        ELSE [ok |-> TRUE, stored |-> TRUE, val |-> SubSeq(t, 1, n), rest |-> Drop(t, n)]

\* istream >> int.  A failed sentry stores nothing; a token that does not start
\* a decimal number stores 0 and sets failbit (C++11 num_get); otherwise the
\* longest sign-and-digits prefix is converted and the rest stays in the stream.
ExtractInt(s, good) ==
    LET t == SkipSpace(s)
        signed == t # <<>> /\ Head(t) \in {"-", "+"}
        body == IF signed THEN Tail(t) ELSE t
        n == DigitsLen(body)
        mag == DigitsValue(SubSeq(body, 1, n), 0)
    IN  IF ~good THEN [ok |-> FALSE, stored |-> FALSE, val |-> 0, rest |-> s]
        ELSE IF t = <<>> THEN [ok |-> FALSE, stored |-> FALSE, val |-> 0, rest |-> t]
        ELSE IF n = 0 THEN [ok |-> FALSE, stored |-> TRUE, val |-> 0, rest |-> t]
        ELSE [ok |-> TRUE, stored |-> TRUE,
              val |-> IF signed /\ Head(t) = "-" THEN 0 - mag ELSE mag,
              rest |-> Drop(body, n)]

RECURSIVE NatToText(_)
NatToText(n) ==
    IF n < 10 THEN <<DigitChars[n + 1]>>
    ELSE NatToText(n \div 10) \o <<DigitChars[(n % 10) + 1]>>

\* ostream << int
IntToText(n) == IF n < 0 THEN <<"-">> \o NatToText(0 - n) ELSE NatToText(n)

-----------------------------------------------------------------------------
(* Inputs. *)

Hero == <<"H", "e", "r", "o">>

\* What the user can type when a number is read from cin: the selections 0..4,
\* a word that is no number, and nothing at all (the input is exhausted).
CinNumberTexts == {IntToText(n) : n \in 0..4} \cup {<<"x">>, <<>>}

\* What the user can type when the name is read: a token, or nothing at all.
CinNameTexts == {Hero, <<"7">>, <<>>}

\* Health values found in a game_state.txt the program did not write itself.
FileHealths == {0 - 5, 0, 10, 15, 80, 100, 150}

\* Values an int that was never assigned can hold.
UninitInts == {0 - 1, 0, 40, 130}

\* Messages.
MsgStarting == "Starting new game..."

MsgLoaded == "Game state loaded successfully."

MsgLoadError == "Error loading game: Failed to open file for loading."

MsgSaved == "Game state saved successfully."

MsgSaveError == "Error saving game: Failed to open file for saving."

MsgStats == "stats"

MsgPlayerAttacks == "attacks the enemy!"

MsgEnemyAttacks == "attacks the player!"

MsgTreasure == "Collected a treasure!"

MsgInvalidAction == "Invalid action. Try again."

MsgInvalidChoice == "Invalid choice. Please try again."

MsgDefeat == "You have been defeated. Game over."

MsgVictory == "You defeated the enemy! Victory!"

MsgFarewell == "Thank you for playing Mystic Quest!"

-----------------------------------------------------------------------------
(* Character, Player, Enemy. *)

\* takeDamage without the test of line 28.
takeDamageNoClamp(health, damage) == health - damage

\* Character::takeDamage: the health left after `damage` is applied to `health`.
takeDamage(health, damage) ==
    LET h == health - damage
    IN  IF h < 0 THEN 0 ELSE h

\* A Player built with one treasure already counted.
NewPlayerOneTreasure(name) ==
    [name |-> name, health |-> PlayerInitialHealth, treasuresCollected |-> 1]

\* Player::Player(name)
NewPlayer(name) ==
    [name |-> name, health |-> PlayerInitialHealth, treasuresCollected |-> 0]

\* Enemy::Enemy(name)
NewEnemy(name) == [name |-> name, health |-> EnemyInitialHealth]

\* Player::attack(target): the target after the attack.
PlayerAttack(target) ==
    [target EXCEPT !.health = takeDamage(target.health, PlayerAttackDamage)]

\* Enemy::attack dealing half of the Player's initial health.
EnemyAttackHeavy(target) ==
    [target EXCEPT !.health = takeDamage(target.health, EnemyInitialHealth)]

\* Enemy::attack dealing the Player's damage.
EnemyAttackAsPlayer(target) ==
    [target EXCEPT !.health = takeDamage(target.health, PlayerAttackDamage)]

\* Enemy::attack(target): the target after the attack.
EnemyAttack(target) ==
    [target EXCEPT !.health = takeDamage(target.health, EnemyAttackDamage)]

\* collectTreasure counting the treasure twice.
collectTreasureTwice(p) ==
    [p EXCEPT !.treasuresCollected = p.treasuresCollected + 2]

\* Player::collectTreasure
collectTreasure(p) ==
    [p EXCEPT !.treasuresCollected = p.treasuresCollected + 1]

\* The record of one takeDamage call: who was hit, the health before, the
\* damage and the health after.
Call(target, before, damage, after) ==
    [target |-> target, h |-> before, d |-> damage, r |-> after]

-----------------------------------------------------------------------------
(* Persistence. *)

\* The number loadGame subtracts the saved health from.
LoadBaseline == 100

\* What saveGame writes for the Player p: the name and the health, one per line.
SaveText(p) == p.name \o <<NL>> \o IntToText(p.health) \o <<NL>>

\* saveGame that opens the file and writes nothing into it.
saveGameNoWrite(p) == IF writable THEN <<<<>>>> ELSE file

\* saveGame: the file after the call.
saveGame(p) == IF writable THEN <<SaveText(p)>> ELSE file

\* saveGame: what it prints.
saveGameOut == IF writable THEN <<MsgSaved>> ELSE <<MsgSaveError>>

\* loadGame, `file >> playerName`: playerName starts as the empty string.
LoadedName(text) == ExtractString(text, TRUE).val

\* loadGame, `>> playerHealth`: playerHealth is declared without a value, so
\* when the extraction stores nothing its value is any int.
LoadedHealths(text) ==
    LET r1 == ExtractString(text, TRUE)
        r2 == ExtractInt(r1.rest, r1.ok)
    IN  IF r2.stored THEN {r2.val} ELSE UninitInts

\* loadGame applying the saved health itself as the damage.
LoadDamageDirect(playerHealth) == playerHealth

\* loadGame: the damage applied to the new Player for the health read.
LoadDamage(playerHealth) == LoadBaseline - playerHealth

\* loadGame: the Player built from the name and the health read.
LoadedPlayer(name, playerHealth) ==
    LET p == NewPlayer(name)
    IN  [p EXCEPT !.health = takeDamage(p.health, LoadDamage(playerHealth))]

\* Whether both extractions of loadGame succeed on this text.
Readable(text) ==
    LET r1 == ExtractString(text, TRUE)
    IN  r1.ok /\ ExtractInt(r1.rest, r1.ok).ok

-----------------------------------------------------------------------------
(* History. *)

Snapshot ==
    [player |-> player, enemy |-> enemy, file |-> file, cinFail |-> cinFail,
     pc |-> pc, choice |-> choice]

Event(op, calls) == [op |-> op, pre |-> Snapshot, calls |-> calls]

NoBout == [entry |-> "none", health0 |-> 0, attacks |-> 0]

-----------------------------------------------------------------------------
(* Initial state: main has built the Game, shown the opening screen and started
   musicThread; displayMenu is about to read the first selection. *)

InitialTexts ==
    {<<>>, Hero, Hero \o <<NL>> \o <<"x">> \o <<NL>>, <<NL, " ">>}
    \cup {SaveText([name |-> Hero, health |-> h]) : h \in FileHealths}
    \cup {SaveText([name |-> <<"7">>, health |-> 80])}

InitialFiles == {<<>>} \cup {<<t>> : t \in InitialTexts}

Init ==
    /\ pc = "menu"
    /\ audio = "start"
    /\ choice = 0
    /\ cinFail = FALSE
    /\ player = <<>>
    /\ enemy = <<>>
    /\ file \in InitialFiles
    /\ writable \in BOOLEAN
    /\ out = <<>>
    /\ ev = [op |-> "init",
             pre |-> [player |-> <<>>, enemy |-> <<>>, file |-> file,
                      cinFail |-> FALSE, pc |-> "menu", choice |-> 0],
             calls |-> <<>>]
    /\ bout = NoBout
    /\ saved = <<>>

-----------------------------------------------------------------------------
(* Game::displayMenu: one iteration reads `choice` and runs the branch. *)

\* `cin >> choice`: the value of choice and cin's failbit after the read.
ReadChoice(tok) ==
    LET r == ExtractInt(tok, ~cinFail)
    IN  [val |-> IF r.stored THEN r.val ELSE choice, fail |-> cinFail \/ ~r.ok]

\* `int action = 0; cin >> action`
ReadAction(tok) ==
    LET r == ExtractInt(tok, ~cinFail)
    IN  [val |-> IF r.stored THEN r.val ELSE 0, fail |-> cinFail \/ ~r.ok]

\* choice == 1, Game::startGame up to the first test of play()'s loop.
StartGame ==
    /\ pc = "menu"
    /\ \E tok \in CinNumberTexts, nm \in CinNameTexts :
         LET c == ReadChoice(tok)
             n == ExtractString(nm, ~c.fail)
         IN  /\ c.val = 1
             /\ choice' = c.val
             /\ cinFail' = (c.fail \/ ~n.ok)
             /\ player' = <<NewPlayer(n.val)>>
    /\ enemy' = <<NewEnemy("Goblin")>>
    /\ out' = <<MsgStarting>>
    /\ pc' = "loop"
    /\ ev' = Event("StartGame", <<>>)
    /\ bout' = [entry |-> "start", health0 |-> player'[1].health, attacks |-> 0]
    /\ UNCHANGED <<audio, file, writable, saved>>

\* loadGame without the test of the opened stream (lines 144-146): on a file
\* that cannot be opened both extractions fail and the Player is built anyway.
LoadGameNoThrow ==
    /\ pc = "menu"
    /\ \E tok \in CinNumberTexts :
         LET c == ReadChoice(tok)
         IN  /\ c.val = 2
             /\ choice' = c.val
             /\ cinFail' = c.fail
    /\ \E playerHealth \in (IF file = <<>> THEN UninitInts ELSE LoadedHealths(file[1])) :
         LET p == LoadedPlayer(IF file = <<>> THEN <<>> ELSE LoadedName(file[1]),
                               playerHealth)
         IN  /\ player' = <<p>>
             /\ enemy' = <<NewEnemy("Goblin")>>
             /\ out' = <<MsgLoaded>>
             /\ pc' = "loop"
             /\ ev' = Event("LoadGame",
                            <<Call("player", PlayerInitialHealth,
                                   LoadDamage(playerHealth), p.health)>>)
             /\ bout' = [entry |-> "load", health0 |-> p.health, attacks |-> 0]
    /\ UNCHANGED <<audio, file, writable, saved>>

\* choice == 2, Game::loadGame up to the first test of play()'s loop, or to its
\* catch block when the file cannot be opened.
LoadGame ==
    /\ pc = "menu"
    /\ \E tok \in CinNumberTexts :
         LET c == ReadChoice(tok)
         IN  /\ c.val = 2
             /\ choice' = c.val
             /\ cinFail' = c.fail
    /\ IF file = <<>>
       THEN /\ out' = <<MsgLoadError>>
            /\ pc' = "menu"
            /\ ev' = Event("LoadGame", <<>>)
            /\ UNCHANGED <<player, enemy, bout, saved>>
       ELSE \E playerHealth \in LoadedHealths(file[1]) :
              LET p == LoadedPlayer(LoadedName(file[1]), playerHealth)
              IN  /\ player' = <<p>>
                  /\ enemy' = <<NewEnemy("Goblin")>>
                  /\ out' = <<MsgLoaded>>
                  /\ pc' = "loop"
                  /\ ev' = Event("LoadGame",
                                 <<Call("player", PlayerInitialHealth,
                                        LoadDamage(playerHealth), p.health)>>)
                  /\ bout' = [entry |-> "load", health0 |-> p.health, attacks |-> 0]
    /\ UNCHANGED <<audio, file, writable, saved>>

\* choice == 3: the farewell; the loop ends and displayMenu returns to main.
MenuExit ==
    /\ pc = "menu"
    /\ \E tok \in CinNumberTexts :
         LET c == ReadChoice(tok)
         IN  /\ c.val = 3
             /\ choice' = c.val
             /\ cinFail' = c.fail
    /\ out' = <<MsgFarewell>>
    /\ pc' = "join"
    /\ ev' = Event("MenuExit", <<>>)
    /\ UNCHANGED <<audio, player, enemy, file, writable, bout, saved>>

\* Any other choice.
MenuInvalid ==
    /\ pc = "menu"
    /\ \E tok \in CinNumberTexts :
         LET c == ReadChoice(tok)
         IN  /\ c.val \notin {1, 2, 3}
             /\ choice' = c.val
             /\ cinFail' = c.fail
    /\ out' = <<MsgInvalidChoice>>
    /\ pc' = "menu"
    /\ ev' = Event("MenuInvalid", <<>>)
    /\ UNCHANGED <<audio, player, enemy, file, writable, bout, saved>>

-----------------------------------------------------------------------------
(* Game::play. *)

\* The test of the while loop (line 187) and, when it holds, the two
\* displayStats calls and the prompt.
PlayLoop ==
    /\ pc = "loop"
    /\ IF player[1].health > 0 /\ enemy[1].health > 0
       THEN /\ pc' = "action"
            /\ out' = <<MsgStats, MsgStats>>
       ELSE /\ pc' = "outcome"
            /\ out' = <<>>
    /\ ev' = Event("PlayLoop", <<>>)
    /\ UNCHANGED <<audio, choice, cinFail, player, enemy, file, writable, bout, saved>>

\* An Enemy that strikes back even when the hit killed it.
RetaliatesAlways(e) == TRUE

\* Whether the Enemy e, just hit, strikes back (line 197).
Retaliates(e) == e.health > 0

\* action == 1: the Player attacks; the Enemy retaliates if it is still alive.
Attack ==
    /\ pc = "action"
    /\ \E tok \in CinNumberTexts :
         LET a == ReadAction(tok)
         IN  /\ a.val = 1
             /\ cinFail' = a.fail
    /\ LET e == PlayerAttack(enemy[1])
           retaliates == Retaliates(e)
           p == IF retaliates THEN EnemyAttack(player[1]) ELSE player[1]
       IN  /\ enemy' = <<e>>
           /\ player' = <<p>>
           /\ out' = <<MsgPlayerAttacks>>
                     \o (IF retaliates THEN <<MsgEnemyAttacks>> ELSE <<>>)
           /\ ev' = Event("Attack",
                          <<Call("enemy", enemy[1].health, PlayerAttackDamage, e.health)>>
                          \o (IF retaliates
                              THEN <<Call("player", player[1].health,
                                          EnemyAttackDamage, p.health)>>
                              ELSE <<>>))
    /\ bout' = [bout EXCEPT !.attacks = bout.attacks + 1]
    /\ pc' = "loop"
    /\ UNCHANGED <<audio, choice, file, writable, saved>>

\* action == 2: the Player collects a treasure.
CollectTreasure ==
    /\ pc = "action"
    /\ player[1].treasuresCollected < MaxTreasures
    /\ \E tok \in CinNumberTexts :
         LET a == ReadAction(tok)
         IN  /\ a.val = 2
             /\ cinFail' = a.fail
    /\ player' = <<collectTreasure(player[1])>>
    /\ out' = <<MsgTreasure>>
    /\ ev' = Event("CollectTreasure", <<>>)
    /\ pc' = "loop"
    /\ UNCHANGED <<audio, choice, enemy, file, writable, bout, saved>>

\* Save and exit that leaves the loop with `break`: the code after the loop runs.
SaveAndExitBreak ==
    /\ pc = "action"
    /\ \E tok \in CinNumberTexts :
         LET a == ReadAction(tok)
         IN  /\ a.val = 3
             /\ cinFail' = a.fail
    /\ file' = saveGame(player[1])
    /\ out' = saveGameOut
    /\ ev' = Event("SaveAndExit", <<>>)
    /\ pc' = "outcome"
    /\ UNCHANGED <<audio, choice, player, enemy, writable, bout>>
    /\ saved' = IF writable THEN <<player[1]>> ELSE saved

\* action == 3: saveGame, then the Player is deleted and play() returns;
\* startGame or loadGame returns with it, back to displayMenu's loop.
SaveAndExit ==
    /\ pc = "action"
    /\ \E tok \in CinNumberTexts :
         LET a == ReadAction(tok)
         IN  /\ a.val = 3
             /\ cinFail' = a.fail
    /\ file' = saveGame(player[1])
    /\ out' = saveGameOut
    /\ player' = <<>>
    /\ enemy' = <<>>
    /\ ev' = Event("SaveAndExit", <<>>)
    /\ pc' = "menu"
    /\ UNCHANGED <<audio, choice, writable, bout>>
    /\ saved' = IF writable THEN <<player[1]>> ELSE saved

\* An invalid action that costs the turn: the Enemy attacks.
InvalidActionEnemyTurn ==
    /\ pc = "action"
    /\ \E tok \in CinNumberTexts :
         LET a == ReadAction(tok)
         IN  /\ a.val \notin {1, 2, 3}
             /\ cinFail' = a.fail
    /\ player' = <<EnemyAttack(player[1])>>
    /\ out' = <<MsgInvalidAction, MsgEnemyAttacks>>
    /\ ev' = Event("InvalidAction",
                   <<Call("player", player[1].health, EnemyAttackDamage,
                          EnemyAttack(player[1]).health)>>)
    /\ pc' = "loop"
    /\ UNCHANGED <<audio, choice, enemy, file, writable, bout, saved>>

\* Any other action.
InvalidAction ==
    /\ pc = "action"
    /\ \E tok \in CinNumberTexts :
         LET a == ReadAction(tok)
         IN  /\ a.val \notin {1, 2, 3}
             /\ cinFail' = a.fail
    /\ out' = <<MsgInvalidAction>>
    /\ ev' = Event("InvalidAction", <<>>)
    /\ pc' = "loop"
    /\ UNCHANGED <<audio, choice, player, enemy, file, writable, bout, saved>>

\* The outcome message printed once the loop has ended (lines 213-218).
OutcomeOut(p, e) ==
    IF p.health <= 0 THEN <<MsgDefeat>>
    ELSE IF e.health <= 0 THEN <<MsgVictory>>
    ELSE <<>>

\* The end of play() without `delete player; player = nullptr`.
OutcomeNoDelete ==
    /\ pc = "outcome"
    /\ out' = OutcomeOut(player[1], enemy[1])
    /\ enemy' = <<>>
    /\ ev' = Event("Outcome", <<>>)
    /\ pc' = "menu"
    /\ UNCHANGED <<audio, choice, cinFail, player, file, writable, bout, saved>>

\* After the loop: the outcome message, the Player is deleted, play() returns.
Outcome ==
    /\ pc = "outcome"
    /\ out' = OutcomeOut(player[1], enemy[1])
    /\ player' = <<>>
    /\ enemy' = <<>>
    /\ ev' = Event("Outcome", <<>>)
    /\ pc' = "menu"
    /\ UNCHANGED <<audio, choice, cinFail, file, writable, bout, saved>>

-----------------------------------------------------------------------------
(* main and playBackgroundMusic. *)

\* playBackgroundMusic prints its first line and goes to sleep.
MusicStart ==
    /\ audio = "start"
    /\ audio' = "sleeping"
    /\ UNCHANGED <<pc, choice, cinFail, player, enemy, file, writable, out, ev, bout, saved>>

\* The sleep is over: the last line is printed and the thread ends.
MusicEnd ==
    /\ audio = "sleeping"
    /\ audio' = "ended"
    /\ UNCHANGED <<pc, choice, cinFail, player, enemy, file, writable, out, ev, bout, saved>>

\* main returning without the join of line 240.
JoinNoWait ==
    /\ pc = "join"
    /\ pc' = "done"
    /\ out' = <<>>
    /\ ev' = Event("Join", <<>>)
    /\ UNCHANGED <<audio, choice, cinFail, player, enemy, file, writable, bout, saved>>

\* musicThread.join() returns once the thread has ended; main returns 0.
Join ==
    /\ pc = "join"
    /\ audio = "ended"
    /\ pc' = "done"
    /\ out' = <<>>
    /\ ev' = Event("Join", <<>>)
    /\ UNCHANGED <<audio, choice, cinFail, player, enemy, file, writable, bout, saved>>

Next ==
    \/ StartGame
    \/ LoadGame
    \/ MenuExit
    \/ MenuInvalid
    \/ PlayLoop
    \/ Attack
    \/ CollectTreasure
    \/ SaveAndExit
    \/ InvalidAction
    \/ Outcome
    \/ MusicStart
    \/ MusicEnd
    \/ Join

Spec == Init /\ [][Next]_vars

-----------------------------------------------------------------------------
(* Character::takeDamage on its own: a Character of any health 0..MaxUnitHealth
   receives any sequence of damages 0..MaxUnitDamage. *)

InitUnit ==
    /\ pc = "unit"
    /\ audio = "ended"
    /\ choice = 0
    /\ cinFail = FALSE
    /\ \E h \in 0..MaxUnitHealth :
         player = <<[name |-> Hero, health |-> h, treasuresCollected |-> 0]>>
    /\ enemy = <<>>
    /\ file = <<>>
    /\ writable = FALSE
    /\ out = <<>>
    /\ ev = [op |-> "init",
             pre |-> [player |-> player, enemy |-> <<>>, file |-> <<>>,
                      cinFail |-> FALSE, pc |-> "unit", choice |-> 0],
             calls |-> <<>>]
    /\ bout = NoBout
    /\ saved = <<>>

TakeDamageCall ==
    /\ pc = "unit"
    /\ \E d \in 0..MaxUnitDamage :
         LET r == takeDamage(player[1].health, d)
         IN  /\ player' = <<[player[1] EXCEPT !.health = r]>>
             /\ ev' = Event("takeDamage", <<Call("player", player[1].health, d, r)>>)
    /\ UNCHANGED <<pc, audio, choice, cinFail, enemy, file, writable, out, bout, saved>>

NextUnit == TakeDamageCall

SpecUnit == InitUnit /\ [][NextUnit]_vars

-----------------------------------------------------------------------------
(* Properties. *)

Range(s) == {s[i] : i \in 1..Len(s)}

Max0(x) == IF x >= 0 THEN x ELSE 0

\* C1: for every health h >= 0 and damage d >= 0, takeDamage(d) leaves the
\* health at max(0, h - d): 0 when d > h, h itself when d = 0.
C1_TakeDamageIsClampedSubtraction ==
    ev.op = "takeDamage" =>
        LET h == ev.pre.player[1].health
            d == ev.calls[1].d
            after == player[1].health
        IN  /\ h >= 0 /\ d >= 0
            /\ after = Max0(h - d)
            /\ (d > h => after = 0)
            /\ (d = 0 => after = h)

C1_Witness ==
    /\ ev.op = "takeDamage"
    /\ ev.pre.player[1].health > 0
    /\ ev.calls[1].d > ev.pre.player[1].health
    /\ player[1].health = 0

\* C2: when save-and-exit wrote the file for a Player whose name is a token
\* (not empty), the next load of that file builds a Player with the same name
\* and exactly the same health.
C2_SaveLoadRoundTrip ==
    (/\ ev.op = "LoadGame"
     /\ saved # <<>>
     /\ ev.pre.file # <<>>
     /\ saved[1].name # <<>>)
    => /\ player # <<>>
       /\ player[1].name = saved[1].name
       /\ player[1].health = saved[1].health

C2_Witness ==
    /\ ev.op = "LoadGame"
    /\ saved # <<>>
    /\ saved[1].name = Hero
    /\ saved[1].health = 85
    /\ player # <<>>
    /\ player[1].name = Hero
    /\ player[1].health = 85

\* C3: one attack action with Player health p > 0 and Enemy health e > 0 sets
\* the Enemy's health to max(0, e - 20); the Enemy retaliates exactly once,
\* setting the Player's health to max(0, p - 15), iff its health is still > 0;
\* otherwise the Player's health stays p.  From (100, 50) it gives (85, 30).
C3_AttackExchange ==
    ev.op = "Attack" =>
        LET p == ev.pre.player[1].health
            e == ev.pre.enemy[1].health
            hitsOnPlayer == {i \in 1..Len(ev.calls) : ev.calls[i].target = "player"}
            hitsOnEnemy == {i \in 1..Len(ev.calls) : ev.calls[i].target = "enemy"}
        IN  /\ p > 0 /\ e > 0
            /\ enemy[1].health = Max0(e - 20)
            /\ Cardinality(hitsOnEnemy) = 1
            /\ IF enemy[1].health > 0
               THEN player[1].health = Max0(p - 15) /\ Cardinality(hitsOnPlayer) = 1
               ELSE player[1].health = p /\ hitsOnPlayer = {}
            /\ (p = 100 /\ e = 50 => player[1].health = 85 /\ enemy[1].health = 30)
            /\ player[1].name = ev.pre.player[1].name
            /\ player[1].treasuresCollected = ev.pre.player[1].treasuresCollected

C3_Witness ==
    /\ ev.op = "Attack"
    /\ ev.pre.player[1].health = 100
    /\ ev.pre.enemy[1].health = 50
    /\ player[1].health = 85
    /\ enemy[1].health = 30

\* C4: in a bout entered with Player health 100, whatever else is selected in
\* between, the healths after 0, 1, 2, 3 attack actions are (100, 50), (85, 30),
\* (70, 10), (70, 0); the loop ends only after the third attack, and the
\* outcome printed is the victory.
C4_VictoryInThreeAttacks ==
    bout.health0 = 100 =>
        /\ pc \in {"loop", "action", "outcome"} =>
             /\ bout.attacks \in 0..3
             /\ <<player[1].health, enemy[1].health>> =
                  <<<<100, 50>>, <<85, 30>>, <<70, 10>>, <<70, 0>>>>[bout.attacks + 1]
             /\ (pc = "outcome" => bout.attacks = 3)
             /\ (pc = "action" => bout.attacks < 3)
        /\ ev.op = "Outcome" =>
             /\ bout.attacks = 3
             /\ out = <<MsgVictory>>
             /\ player = <<>>

C4_Witness ==
    /\ bout.health0 = 100
    /\ ev.op = "Outcome"
    /\ bout.attacks = 3
    /\ ev.pre.player[1].treasuresCollected > 0
    /\ ev.pre.player[1].health = 70
    /\ ev.pre.enemy[1].health = 0
    /\ out = <<MsgVictory>>

\* C5: a collect-treasure action adds exactly 1 to the treasure counter and
\* changes neither health: no takeDamage call is made, the Enemy does not
\* attack, and the loop goes on with both combatants alive.
C5_CollectTreasureFrame ==
    ev.op = "CollectTreasure" =>
        /\ player[1].treasuresCollected = ev.pre.player[1].treasuresCollected + 1
        /\ player[1].health = ev.pre.player[1].health
        /\ player[1].name = ev.pre.player[1].name
        /\ enemy = ev.pre.enemy
        /\ ev.calls = <<>>
        /\ MsgEnemyAttacks \notin Range(out)
        /\ pc = "loop"
        /\ player[1].health > 0
        /\ enemy[1].health > 0

C5_Witness ==
    /\ ev.op = "CollectTreasure"
    /\ ev.pre.player[1].treasuresCollected = 1
    /\ player[1].treasuresCollected = 2
    /\ player[1].health = 85
    /\ enemy[1].health = 30

\* C6: the save-and-exit step prints neither the victory nor the defeat text
\* and ends at the menu prompt, so the code after the loop is not run,
\* whether the save succeeded or failed.
C6_SaveExitPrintsNoOutcome ==
    ev.op = "SaveAndExit" =>
        /\ MsgVictory \notin Range(out)
        /\ MsgDefeat \notin Range(out)
        /\ pc = "menu"
        /\ ev.pre.pc = "action"

C6_Witness ==
    /\ ev.op = "SaveAndExit"
    /\ out = <<MsgSaveError>>
    /\ pc = "menu"
    /\ ev.pre.player[1].health = 70

\* C7 as stated: every save-and-exit wrote the Player's name and health to
\* the file and printed the confirmation, also when the file cannot be
\* opened for writing.
C7_SaveAlwaysConfirmed ==
    ev.op = "SaveAndExit" =>
        /\ out = <<MsgSaved>>
        /\ file = <<SaveText(ev.pre.player[1])>>

\* C7 amended: every save-and-exit releases the Player and returns to the
\* menu; when the file can be opened for writing, the name and the health
\* were written and the confirmation printed; when it cannot, the error is
\* printed instead and the file is left as it was.
C7_SaveConfirmedWhenWritable ==
    ev.op = "SaveAndExit" =>
        /\ player = <<>>
        /\ pc = "menu"
        /\ IF writable
           THEN /\ out = <<MsgSaved>>
                /\ file = <<ev.pre.player[1].name \o <<NL>>
                            \o IntToText(ev.pre.player[1].health) \o <<NL>>>>
           ELSE /\ out = <<MsgSaveError>>
                /\ file = ev.pre.file

C7_Witness ==
    /\ ev.op = "SaveAndExit"
    /\ ~writable
    /\ out = <<MsgSaveError>>
    /\ file = ev.pre.file
    /\ player = <<>>

\* C8: a load of a file that cannot be opened builds no Player, prints the
\* error, does not enter the combat loop and comes back to the menu prompt;
\* as long as cin still delivers selections, start, load and exit can be
\* selected there.
C8_LoadOpenFailure ==
    (ev.op = "LoadGame" /\ ev.pre.file = <<>>) =>
        /\ player = <<>>
        /\ enemy = <<>>
        /\ out = <<MsgLoadError>>
        /\ pc = "menu"
        /\ (~cinFail => ENABLED StartGame /\ ENABLED LoadGame /\ ENABLED MenuExit)

C8_Witness ==
    /\ ev.op = "LoadGame"
    /\ ev.pre.file = <<>>
    /\ ~cinFail
    /\ player = <<>>
    /\ out = <<MsgLoadError>>
    /\ pc = "menu"

\* C9 as stated: a load of a file that opens but cannot be read as a name
\* followed by an integer fails: no Player is built, the success message is
\* not printed and the combat loop is not entered.
C9_UnreadableLoadFails ==
    (ev.op = "LoadGame" /\ ev.pre.file # <<>> /\ ~Readable(ev.pre.file[1])) =>
        /\ player = <<>>
        /\ MsgLoaded \notin Range(out)
        /\ pc = "menu"

\* C10 as stated: every takeDamage call the program makes leaves the health
\* between 0 and the health before the call.
C10_TakeDamageNeverRaises ==
    \A i \in 1..Len(ev.calls) :
        /\ 0 <= ev.calls[i].r
        /\ ev.calls[i].r <= ev.calls[i].h

\* C11 as stated: the Player's health is at most 100 in every reachable
\* state, also right after loading a file whose health value is above 100.
C11_HealthAtMostDefault ==
    player # <<>> => player[1].health <= 100

\* C12: an invalid action leaves the Player (health, treasure counter, name)
\* and the Enemy as they were, with the bout still ongoing; an invalid menu
\* selection builds no Player, leaves the file as it was and stays at the menu.
C12_InvalidSelectionFrame ==
    /\ ev.op = "InvalidAction" =>
         /\ player = ev.pre.player
         /\ enemy = ev.pre.enemy
         /\ file = ev.pre.file
         /\ ev.calls = <<>>
         /\ pc = "loop"
         /\ player[1].health > 0
         /\ enemy[1].health > 0
    /\ (ev.op # "init" /\ ev.pre.pc = "menu" /\ choice \notin {1, 2, 3}) =>
         /\ ev.op = "MenuInvalid"
         /\ player = <<>>
         /\ enemy = <<>>
         /\ file = ev.pre.file
         /\ pc = "menu"
         /\ out = <<MsgInvalidChoice>>

C12_Witness ==
    /\ ev.op = "InvalidAction"
    /\ ~cinFail
    /\ player[1].health = 85
    /\ player[1].treasuresCollected = 1
    /\ enemy[1].health = 30

\* C13: the Game holds at most one Player: none at the menu prompt, at the
\* join and at the end; one wherever play() reads or changes it; a Player is
\* only allocated while the pointer is null (no live Player is overwritten)
\* and only a live Player is released, which nulls the pointer (no double
\* release, no use after release).
C13_SinglePlayerOwnership ==
    /\ Len(player) <= 1
    /\ pc \in {"menu", "join", "done"} => player = <<>>
    /\ pc \in {"loop", "action", "outcome"} => Len(player) = 1
    /\ ev.op = "StartGame" => ev.pre.player = <<>> /\ Len(player) = 1
    /\ ev.op = "LoadGame" =>
         /\ ev.pre.player = <<>>
         /\ (Len(player) = 1 <=> ev.pre.file # <<>>)
    /\ ev.op \in {"PlayLoop", "Attack", "CollectTreasure", "InvalidAction"} =>
         Len(ev.pre.player) = 1 /\ Len(player) = 1
    /\ ev.op \in {"SaveAndExit", "Outcome"} =>
         Len(ev.pre.player) = 1 /\ player = <<>>

C13_Witness ==
    /\ ev.op = "StartGame"
    /\ ev.pre.choice = 2
    /\ saved # <<>>
    /\ ev.pre.player = <<>>
    /\ Len(player) = 1

\* C14: the Player's health and the Enemy's health are never 0 together, so
\* when the loop has ended exactly one of them is 0: the defeat text is printed
\* exactly when the Player's health is 0, the victory text exactly when the
\* Enemy's is.
C14_NoMutualZero ==
    /\ (player # <<>> /\ enemy # <<>>) =>
         /\ player[1].health >= 0
         /\ enemy[1].health >= 0
         /\ ~(player[1].health = 0 /\ enemy[1].health = 0)
         /\ (pc = "outcome" => player[1].health = 0 \/ enemy[1].health = 0)
    /\ ev.op = "Outcome" =>
         /\ (out = <<MsgDefeat>> <=> ev.pre.player[1].health = 0)
         /\ (out = <<MsgVictory>> <=> ev.pre.enemy[1].health = 0)
         /\ out \in {<<MsgDefeat>>, <<MsgVictory>>}

C14_Witness ==
    /\ ev.op = "Outcome"
    /\ out = <<MsgDefeat>>
    /\ bout.attacks > 0
    /\ ev.pre.player[1].health = 0
    /\ ev.pre.enemy[1].health > 0

\* C15 as stated: after an invalid menu selection or an invalid action, also
\* one that was a word that is no number or the end of the input, cin can
\* still deliver the next selection, and at the menu the exit option can
\* still be selected.
C15_InvalidInputRecovered ==
    /\ ev.op = "MenuInvalid" => ~cinFail /\ ENABLED MenuExit
    /\ ev.op = "InvalidAction" => ~cinFail

\* The state of the game: everything but the position of the music thread.
gameVars == <<pc, choice, cinFail, player, enemy, file, writable, out, ev, bout, saved>>

\* C16: main returns only after the music thread has ended, in every
\* interleaving, also when exit was selected before the end of the sleep;
\* and no step of the music thread changes anything of the game's state,
\* while no step of the main flow moves the music thread.
C16_JoinBeforeExit ==
    /\ [](pc = "done" => audio = "ended")
    /\ [][/\ (pc' = "done" => audio = "ended")
          /\ (audio' # audio => UNCHANGED gameVars)
          /\ (gameVars' # gameVars => audio' = audio)]_vars

C16_Witness ==
    /\ pc = "join"
    /\ ev.op = "MenuExit"
    /\ audio = "sleeping"
    /\ ~ENABLED Join

\* C17 as stated: every file written by saveGame holds a health in 1..100,
\* and a bout entered by loading a file the game wrote starts with Player
\* health > 0, so that an action is prompted for before any outcome message.
C17_SavedHealthInRange ==
    /\ saved # <<>> => saved[1].health \in 1..100
    /\ (ev.op = "LoadGame" /\ saved # <<>> /\ ev.pre.file # <<>>) =>
         /\ player[1].health > 0
         /\ ENABLED PlayLoop
         /\ pc = "loop"

\* C18: a load restores the name and the health only: whatever the treasure
\* counter and the Enemy's health were when the file was saved, the bout
\* entered by the load starts with treasure counter 0 and a new Enemy,
\* "Goblin", of health 50.
C18_LoadResetsTreasuresAndEnemy ==
    (ev.op = "LoadGame" /\ ev.pre.file # <<>>) =>
        /\ player[1].treasuresCollected = 0
        /\ enemy = <<[name |-> "Goblin", health |-> 50]>>
        /\ bout.attacks = 0
        /\ pc = "loop"

C18_Witness ==
    /\ ev.op = "LoadGame"
    /\ saved # <<>>
    /\ saved[1].treasuresCollected = 2
    /\ saved[1].health = 70
    /\ player[1].health = 70
    /\ player[1].treasuresCollected = 0
    /\ enemy[1].health = 50

\* C19: in a bout entered through start the Player's health is 100, 85 or 70
\* at every step; the bout ends with the victory text or through save-and-exit,
\* never with the defeat text, which is printed only in a bout entered
\* through load.
C19_StartedBoutNeverDefeated ==
    /\ (bout.entry = "start" /\ pc \in {"loop", "action", "outcome"}) =>
         player[1].health \in {100, 85, 70}
    /\ (bout.entry = "start" /\ ev.op = "Outcome") => out = <<MsgVictory>>
    /\ (bout.entry = "start" /\ ev.op = "SaveAndExit") =>
         ev.pre.player[1].health \in {100, 85, 70}
    /\ MsgDefeat \in Range(out) => bout.entry = "load"

C19_Witness ==
    /\ bout.entry = "start"
    /\ ev.op = "Outcome"
    /\ out = <<MsgVictory>>
    /\ ev.pre.player[1].health = 70
    /\ saved = <<>>

====
